---- MODULE Spec2Model ----
(***************************************************************************)
(* Guild-name sync (lib/guildname_sync): the per-guild settings, the       *)
(* roster render, and the convergence of the summary channel's messages,   *)
(* as a state machine of the cog's handlers running on one asyncio loop.   *)
(*                                                                         *)
(* Text is a sequence of characters; a character is a one-element string.  *)
(* The Thai literals of the source are written with ASCII stand-ins, each  *)
(* literal one character: "HDR" for the header line's text, "NOTE" for the *)
(* "not yet introduced" marker, "LBL" for the in-game-name label; the      *)
(* default keyword is written "kw".                                        *)
(*                                                                         *)
(* A handler is a task of the loop: it runs from one await to the next in  *)
(* one step, and the handlers in flight interleave at their awaits.        *)
(***************************************************************************)
EXTENDS Integers, Sequences, FiniteSets, TLC

\* ------------------------------------------------------------------ bounds
\* Handler invocations (commands and message events) in one behaviour.
MaxEvents == 3
\* Steps of the guild's other actors (moderators, members) in one behaviour.
MaxEnv == 1
\* Messages the bot sends in one behaviour; past it no send completes.
MaxMsgs == 4
\* Calls of the platform that fail although they could succeed, in one
\* behaviour.
MaxFaults == 1
\* The per-message size limit, scaled to the model's characters
\* (service.py:11 sets 2000).
MaxMsgLen == 16

\* --------------------------------------------------------------- constants
MAX_DISCORD_LEN == MaxMsgLen
DEFAULT_MAX_IGN_LENGTH == 100

\* None, for a channel, a role or a caller.
None == "None"

\* ------------------------------------------------------------------- text
NL == "\n"
IsSpace(c) == c \in {" ", NL}

RECURSIVE LStrip(_)
LStrip(s) ==
    IF s # <<>> /\ IsSpace(Head(s)) THEN LStrip(Tail(s)) ELSE s

RECURSIVE RStrip(_)
RStrip(s) ==
    IF s # <<>> /\ IsSpace(s[Len(s)]) THEN RStrip(SubSeq(s, 1, Len(s) - 1)) ELSE s

Strip(s) == LStrip(RStrip(s))

\* s[:n]
Take(s, n) == SubSeq(s, 1, IF n < Len(s) THEN n ELSE Len(s))
\* s[n:] (0-based n)
Drop(s, n) == SubSeq(s, n + 1, Len(s))

\* The least index >= from at which c occurs in s, 0 when none.
RECURSIVE IndexFrom(_, _, _)
IndexFrom(s, c, from) ==
    IF from > Len(s) THEN 0
    ELSE IF s[from] = c THEN from
    ELSE IndexFrom(s, c, from + 1)

\* str.splitlines(): a final newline opens no further line.
RECURSIVE splitlines(_)
splitlines(s) ==
    IF s = <<>> THEN <<>>
    ELSE LET i == IndexFrom(s, NL, 1) IN
         IF i = 0 THEN <<s>>
         ELSE <<SubSeq(s, 1, i - 1)>> \o splitlines(Drop(s, i))

\* "\n".join(lines)
RECURSIVE JoinLines(_)
JoinLines(lines) ==
    IF lines = <<>> THEN <<>>
    ELSE IF Len(lines) = 1 THEN lines[1]
    ELSE lines[1] \o <<NL>> \o JoinLines(Tail(lines))

\* Cut leaving a long line whole.
CutNever(line, limit) == line \o <<NL>>

\* Lines 20-22: the line with its newline, cut to the limit when longer.
Cut(line, limit) ==
    LET add == line \o <<NL>> IN
    IF Len(add) > limit THEN Take(add, limit - 1) \o <<NL>> ELSE add

\* Flush losing the buffer.
FlushNothing(chunks, buf) == chunks

\* Lines 25-26 and 31-32: the buffer joins the chunks, without its trailing
\* whitespace, unless it is blank.
Flush(chunks, buf) ==
    IF Strip(buf) # <<>> THEN Append(chunks, RStrip(buf)) ELSE chunks

\* The loop of split_text_lines over the lines left, with the chunks and the
\* buffer so far.
RECURSIVE SplitLoop(_, _, _, _)
SplitLoop(lines, chunks, buf, limit) ==
    IF lines = <<>> THEN Flush(chunks, buf)
    ELSE LET add == Cut(Head(lines), limit) IN
         IF Len(buf) + Len(add) > limit
         THEN SplitLoop(Tail(lines), Flush(chunks, buf), add, limit)
         ELSE SplitLoop(Tail(lines), chunks, buf \o add, limit)

split_text_lines(text, limit) == SplitLoop(splitlines(text), <<>>, <<>>, limit)

\* ------------------------------------------------------------ extract_ign
\* str.lower() on one character.
Lower(c) ==
    CASE c = "A" -> "a" [] c = "B" -> "b" [] c = "D" -> "d" [] c = "I" -> "i"
      [] c = "K" -> "k" [] c = "U" -> "u" [] c = "W" -> "w" [] OTHER -> c

\* [:=\-\s] (the full-width colon of the source's class is not in the
\* model's alphabet).
IsSep(c) == c \in {":", "=", "-", " ", NL}
\* \w
IsWordChar(c) ==
    c \in {"a", "b", "d", "i", "k", "u", "w", "A", "B", "D", "I", "K", "U", "W",
           "1", "2", "_", "NOTE"}
IsBracket(c) == c \in {"(", ")", "[", "]", "{", "}"}

\* \b before the character at index p (1-based; p = Len(s) + 1 is the end).
WordBoundary(s, p) ==
    LET before == p > 1 /\ p - 1 <= Len(s) /\ IsWordChar(s[p - 1])
        after  == p >= 1 /\ p <= Len(s) /\ IsWordChar(s[p])
    IN  before # after

\* The pattern w (lower case) matches s at p, ignoring case.
MatchesAtCI(s, p, w) ==
    /\ p + Len(w) - 1 <= Len(s)
    /\ \A k \in 1..Len(w) : Lower(s[p + k - 1]) = Lower(w[k])
MatchesAt(s, p, w) ==
    /\ p + Len(w) - 1 <= Len(s)
    /\ \A k \in 1..Len(w) : s[p + k - 1] = w[k]

\* \b(?:ID|UID)\b|THAIID matches at p.
IdTokenAt(s, p) ==
    \/ /\ MatchesAtCI(s, p, <<"i", "d">>)
       /\ WordBoundary(s, p) /\ WordBoundary(s, p + 2)
    \/ /\ MatchesAtCI(s, p, <<"u", "i", "d">>)
       /\ WordBoundary(s, p) /\ WordBoundary(s, p + 3)
    \/ MatchesAt(s, p, <<"THAIID">>)

\* re.split(r'\b(?:ID|UID)\b|THAIID', part, flags=re.IGNORECASE)[0]
CutAtId(part) ==
    LET hits == {p \in 1..Len(part) : IdTokenAt(part, p)} IN
    IF hits = {} THEN part
    ELSE SubSeq(part, 1, (CHOOSE p \in hits : \A q \in hits : p <= q) - 1)

\* re.sub(r'[()\[\]{}]+', '', part)
RECURSIVE DropBrackets(_)
DropBrackets(s) ==
    IF s = <<>> THEN <<>>
    ELSE IF IsBracket(Head(s)) THEN DropBrackets(Tail(s))
    ELSE <<Head(s)>> \o DropBrackets(Tail(s))

\* Lines 68-70 and 80-82: cut at the id token, drop brackets, strip.
CleanPart(part) == Strip(DropBrackets(CutAtId(part)))

\* The longest run of characters satisfying the class from index p.
RECURSIVE SepRun(_, _)
SepRun(s, p) ==
    IF p <= Len(s) /\ IsSep(s[p]) THEN 1 + SepRun(s, p + 1) ELSE 0
RECURSIVE NonNewlineRun(_, _)
NonNewlineRun(s, p) ==
    IF p <= Len(s) /\ s[p] # NL THEN 1 + NonNewlineRun(s, p + 1) ELSE 0

\* Group 1 of kw[:=\-\s]*([^\n]{1,max_len}) with the keyword matched at p;
\* <<>> when the pattern does not match there. The separators are taken
\* greedily and given back one at a time until a character can be captured.
CaptureAt(text, p, kw, max_len) ==
    LET e     == p + Len(kw)
        r     == SepRun(text, e)
        \* separators kept, so that the capture starts at e + k
        ks    == {k \in 0..r : e + k <= Len(text) /\ text[e + k] # NL}
    IN  IF ks = {} THEN <<>>
        ELSE LET k == CHOOSE k \in ks : \A j \in ks : j <= k
                 n == NonNewlineRun(text, e + k)
             IN  SubSeq(text, e + k, e + k + (IF n < max_len THEN n ELSE max_len) - 1)

\* pattern.search(text): group 1 of the leftmost match, <<>> when none.
PrimaryCapture(text, kw, max_len) ==
    LET ps == {p \in 1..Len(text) :
                  MatchesAtCI(text, p, kw) /\ CaptureAt(text, p, kw, max_len) # <<>>}
    IN  IF ps = {} THEN <<>>
        ELSE CaptureAt(text, CHOOSE p \in ps : \A q \in ps : p <= q, kw, max_len)

\* re.sub(r'^[:=\-\s]+', '', part)
RECURSIVE LStripSeps(_)
LStripSeps(s) ==
    IF s # <<>> /\ IsSep(Head(s)) THEN LStripSeps(Tail(s)) ELSE s

\* Lines 75-79: the text after the keyword's first literal occurrence, without
\* leading separators, cut to max_len and to its first line; <<>> when the
\* keyword does not occur.
FallbackPart(text, kw, max_len) ==
    LET ps == {p \in 1..Len(text) : MatchesAt(text, p, kw)} IN
    IF ps = {} THEN <<>>
    ELSE LET p     == CHOOSE p \in ps : \A q \in ps : p <= q
             after == LStripSeps(Drop(text, p + Len(kw) - 1))
             cut   == Take(after, max_len)
             i     == IndexFrom(cut, NL, 1)
         IN  IF i = 0 THEN cut ELSE SubSeq(cut, 1, i - 1)

\* One keyword of the loop of extract_ign: the name, or <<>> when this
\* keyword gives none.
ExtractWith(text, kw, max_len) ==
    LET first == CleanPart(PrimaryCapture(text, kw, max_len)) IN
    IF first # <<>> THEN first
    ELSE CleanPart(FallbackPart(text, kw, max_len))

\* None, as the result of extract_ign: a name is never empty.
NoIgn == <<>>

RECURSIVE ExtractLoop(_, _, _)
ExtractLoop(text, kws, max_len) ==
    IF kws = <<>> THEN NoIgn
    ELSE LET ign == ExtractWith(text, Head(kws), max_len) IN
         IF ign # <<>> THEN ign ELSE ExtractLoop(text, Tail(kws), max_len)

\* extract_ign(content, settings): settings carries no ign_max_length, so
\* getattr gives DEFAULT_MAX_IGN_LENGTH.
extract_ign(content, ign_keywords) ==
    ExtractLoop(Strip(content), ign_keywords, DEFAULT_MAX_IGN_LENGTH)

\* ------------------------------------------------------------- the guild
\* guild.members, in the cache's order; "bot" is the bot's own account.
GuildMembers == <<"m1", "m2", "bot">>
Humans == {"m1", "m2"}
IsBot(m) == m = "bot"
\* member.mention, one character.
Mention(m) == <<m>>

\* The guild's roles other than @everyone: role.name and role.position.
\* Role names need not be unique in a guild: r3, a role some guilds have
\* above the bot's, is named as r1 is.
RoleIds == {"r1", "r2"}
RoleName(r) == IF r = "r2" THEN <<"B">> ELSE <<"a">>
RolePosition(r) == CASE r = "r1" -> 1 [] r = "r2" -> 2 [] OTHER -> 3
\* guild.me.top_role
BotTopRole == "r2"

\* The text channels a command can name.
Channels == {"c1", "c2"}

\* ------------------------------------------------- build_summary_from_guild
\* Characters in code point order, for str comparison.
CodeOrder ==
    <<NL, " ", "(", ")", "-", "1", "2", ":", "=", "A", "B", "D", "I", "K", "U",
      "W", "[", "]", "_", "a", "b", "d", "i", "k", "u", "w", "{", "}",
      "THAIID", "NOTE", "LBL", "HDR", "m1", "m2", "bot">>
Code(c) == CHOOSE i \in 1..Len(CodeOrder) : CodeOrder[i] = c

\* a < b on str
RECURSIVE StrLess(_, _)
StrLess(a, b) ==
    IF b = <<>> THEN FALSE
    ELSE IF a = <<>> THEN TRUE
    ELSE IF Head(a) # Head(b) THEN Code(Head(a)) < Code(Head(b))
    ELSE StrLess(Tail(a), Tail(b))

\* str.lower()
LowerStr(s) == [i \in 1..Len(s) |-> Lower(s[i])]

\* "NOTE" in ign
HasNote(ign) == \E i \in 1..Len(ign) : ign[i] = "NOTE"

\* Line 190: the placeholder's text, f"({note})".
Placeholder == <<"(", "NOTE", ")">>

\* sort_key_fn(x) < sort_key_fn(y), on (is_note, ign.lower()).
EntryLess(x, y) ==
    \/ ~HasNote(x[2]) /\ HasNote(y[2])
    \/ /\ HasNote(x[2]) = HasNote(y[2])
       /\ StrLess(LowerStr(x[2]), LowerStr(y[2]))

\* sorted(members, key=sort_key_fn): stable.
RECURSIVE InsertEntry(_, _)
InsertEntry(x, sorted) ==
    IF sorted = <<>> THEN <<x>>
    ELSE IF EntryLess(x, Head(sorted)) THEN <<x>> \o sorted
    ELSE <<Head(sorted)>> \o InsertEntry(x, Tail(sorted))
RECURSIVE SortEntries(_)
SortEntries(es) ==
    IF es = <<>> THEN <<>>
    ELSE InsertEntry(es[Len(es)], SortEntries(SubSeq(es, 1, Len(es) - 1)))

\* max(real_roles, key=lambda r: r.position)
TopRole(roles) == CHOOSE r \in roles : \A q \in roles : RolePosition(q) <= RolePosition(r)

\* Whether the map (a sequence of <<member, ign>>) has the member as a key.
InMap(map, m) == \E i \in 1..Len(map) : map[i][1] = m

\* The test of excluded_role_ids left out.
IsExcludedNever(member_roles, excluded) == FALSE

\* Lines 121 and 179: any(r.id in settings.excluded_role_ids for r in
\* member.roles).
IsExcluded(member_roles, excluded) == member_roles \cap excluded # {}

\* Lines 176-190: the placeholders added after the introduced members, over
\* the members left to visit.
RECURSIVE AddPlaceholders(_, _, _, _)
AddPlaceholders(combined, members, roles, excluded) ==
    IF members = <<>> THEN combined
    ELSE LET m == Head(members)
             skip == \/ IsBot(m)
                     \/ IsExcluded(roles[m], excluded)
                     \/ InMap(combined, m)
                     \/ roles[m] = {}
         IN  AddPlaceholders(IF skip THEN combined
                             ELSE Append(combined, <<m, Placeholder>>),
                             Tail(members), roles, excluded)

\* Lines 198-212: groups is a sequence of [name, sort_key, members] in the
\* order the names were first seen; an entry whose member has no real role is
\* dropped.
RECURSIVE GroupLoop(_, _, _)
GroupLoop(entries, groups, roles) ==
    IF entries = <<>> THEN groups
    ELSE LET e == Head(entries)
             m == e[1]
         IN  IF roles[m] = {} THEN GroupLoop(Tail(entries), groups, roles)
             ELSE LET top  == TopRole(roles[m])
                      name == RoleName(top)
                      at   == {i \in 1..Len(groups) : groups[i].name = name}
                  IN  IF at = {}
                      THEN GroupLoop(Tail(entries),
                                     Append(groups, [name |-> name,
                                                     sort_key |-> 0 - RolePosition(top),
                                                     members |-> <<e>>]),
                                     roles)
                      ELSE LET i == CHOOSE i \in at : TRUE IN
                           GroupLoop(Tail(entries),
                                     [groups EXCEPT ![i].members = Append(@, e)],
                                     roles)

\* sorted(groups.items(), key=sort_key): stable.
RECURSIVE InsertGroup(_, _)
InsertGroup(g, sorted) ==
    IF sorted = <<>> THEN <<g>>
    ELSE IF g.sort_key < Head(sorted).sort_key THEN <<g>> \o sorted
    ELSE <<Head(sorted)>> \o InsertGroup(g, Tail(sorted))
RECURSIVE SortGroups(_)
SortGroups(gs) ==
    IF gs = <<>> THEN <<>>
    ELSE InsertGroup(gs[Len(gs)], SortGroups(SubSeq(gs, 1, Len(gs) - 1)))

\* Lines 233-237: one line per member of a group.
MemberLine(e) ==
    IF HasNote(e[2]) THEN <<"- ">> \o Mention(e[1]) \o <<" - ">> \o e[2]
    ELSE <<"- ">> \o Mention(e[1]) \o <<" - ", "LBL", ": ">> \o e[2]

\* Lines 223-238: the lines of the groups, in order.
RECURSIVE GroupLines(_)
GroupLines(gs) ==
    IF gs = <<>> THEN <<>>
    ELSE LET g  == Head(gs)
             ms == SortEntries(g.members)
         IN  <<<<"**">> \o g.name \o <<"**">>>>
             \o [i \in 1..Len(ms) |-> MemberLine(ms[i])]
             \o <<<<>>>>
             \o GroupLines(Tail(gs))

\* None, as the result of build_summary_from_guild: a text is never empty.
NoText == <<>>

\* build_summary_from_guild(guild, user_map, settings): the text, or NoText.
\* roles is each member's roles other than @everyone, read when the text is
\* built.
build_summary_from_guild(user_map, roles, excluded) ==
    LET combined == AddPlaceholders(user_map, GuildMembers, roles, excluded)
        groups   == GroupLoop(combined, <<>>, roles)
    IN  IF combined = <<>> \/ groups = <<>> THEN NoText
        ELSE Strip(JoinLines(<<<<"HDR", NL>>>> \o GroupLines(SortGroups(groups))))

\* ------------------------------------------------------------------ state
VARIABLES
    declared,      \* whether GuildSettings carries the attributes of NewSettings
    settings,      \* service._settings: <<>>, or <<the guild's entry>>
    liveChannels,  \* the channels guild.get_channel resolves
    msgs,          \* the messages the bot has sent: msgs[id] = [ch, content, live]
    history,       \* the members' messages, oldest first: [ch, author, content]
    roles,         \* each member's roles other than @everyone
    task,          \* the handlers in flight, one per slot
    events,        \* handlers dispatched so far
    envSteps,      \* steps of the other actors so far
    faults,        \* calls of the platform that failed although they could succeed
    lastChunks,    \* the chunks of the rescan that last assigned summary_message_ids
    orphans,       \* the ids sent by rescans that then raised
    pure,          \* the call of a function on its own: [fn, arg, done, out]
    manage_roles   \* guild.me.guild_permissions.manage_roles

vars == <<declared, settings, liveChannels, msgs, history, roles, task, events,
          envSteps, faults, lastChunks, orphans, pure, manage_roles>>

\* No function is called on its own while the bot runs.
NoCall == [fn |-> "none", arg |-> <<>>, done |-> FALSE, out |-> <<>>]

Tasks == {1, 2}

DefaultKeyword == <<"k", "w">>

\* The attributes the service and the cog read and assign on a GuildSettings
\* object although the dataclass does not declare them.
DataModelAttrs == {"auto_role_id", "newbie_role_id", "summary_message_ids"}

\* GuildSettings(): the dataclass declares enabled, the two channel ids,
\* excluded_role_ids and ign_keywords. attrs is the set of the undeclared
\* attributes the object carries: reading one it does not carry raises
\* AttributeError, assigning one adds it. With declared false a new object
\* carries none, as the class is written; with declared true it carries all
\* three, unset and empty.
NewSettings ==
    [enabled             |-> FALSE,
     source_channel_id   |-> None,
     summary_channel_id  |-> None,
     excluded_role_ids   |-> {},
     ign_keywords        |-> <<DefaultKeyword>>,
     attrs               |-> IF declared THEN DataModelAttrs ELSE {},
     auto_role_id        |-> None,
     newbie_role_id      |-> None,
     summary_message_ids |-> <<>>]

\* Reading the attribute raises AttributeError.
Missing(gs, attr) == attr \notin gs.attrs

\* settings.<attr> = value
Assign(gs, attr, value) ==
    [[gs EXCEPT !.attrs = @ \cup {attr}] EXCEPT ![attr] = value]

\* get_settings(guild): the entry, created when there is none.
get_settings == IF settings = <<>> THEN NewSettings ELSE settings[1]

\* The callers: a member who holds the administrator permission, a member
\* who does not, and a user who is not a member (a discord.User).
Callers == {"admin", "member", "user"}

\* ensure_admin without the test of the permission.
ensure_member(caller) == caller # "user"

\* ensure_admin(interaction): the caller is a member of the guild and holds
\* the administrator permission.
ensure_admin(caller) == caller # "user" /\ caller = "admin"

\* A task slot's record. The fields after "left" record what the handler did
\* and are read by no handler.
Idle ==
    [kind |-> "idle", pc |-> "idle", caller |-> None, result |-> 0,
     author |-> None, src |-> None, summary_ch |-> None, user_map |-> <<>>,
     gi |-> 0, grole |-> None, chunks |-> <<>>, mids |-> <<>>, fi |-> 0,
     old_msgs |-> <<>>, used_ids |-> <<>>, di |-> 0, deleted |-> 0,
     left |-> <<>>, scan |-> "no", sawOn |-> FALSE, prev |-> <<>>,
     writes |-> <<>>, delTried |-> {}, delFailed |-> {},
     seenOrphans |-> {}, denied |-> FALSE, gone |-> {}, refused |-> {}]

Range(s) == {s[i] : i \in 1..Len(s)}

\* The handler returns, or raises.
Return(tr, value) == [tr EXCEPT !.pc = "done", !.result = value,
                                !.scan = IF @ = "in" THEN "out" ELSE @]
Raise(tr) == [tr EXCEPT !.pc = "raised", !.scan = IF @ = "in" THEN "out" ELSE @]

\* ---------------------------------------------------------- rebuild_summary
\* DeleteNext stopping one short of the last old message.
DeleteNextShort(tr, j) ==
    IF j < Len(tr.old_msgs) THEN [tr EXCEPT !.pc = "delete", !.di = j]
    ELSE [tr EXCEPT !.pc = "commit"]

\* Lines 303-311: the deletes of the old messages past the chunks, from
\* index j; with none left the id list is assigned (pc "commit": the action
\* assigns settings.summary_message_ids and returns 1).
DeleteNext(tr, j) ==
    IF j <= Len(tr.old_msgs) THEN [tr EXCEPT !.pc = "delete", !.di = j]
    ELSE [tr EXCEPT !.pc = "commit"]

\* ConvergeNext with the index test off by one: the chunk at the last old
\* message's index is sent as a new message.
ConvergeNextOffByOne(tr) ==
    LET i == Len(tr.used_ids) + 1 IN
    IF i <= Len(tr.chunks)
    THEN [tr EXCEPT !.pc = IF i < Len(tr.old_msgs) THEN "edit" ELSE "send"]
    ELSE DeleteNext(tr, Len(tr.chunks) + 1)

\* Lines 295-301: the next chunk is an edit of the old message at its index, or
\* a send.
ConvergeNext(tr) ==
    LET i == Len(tr.used_ids) + 1 IN
    IF i <= Len(tr.chunks)
    THEN [tr EXCEPT !.pc = IF i <= Len(tr.old_msgs) THEN "edit" ELSE "send"]
    ELSE DeleteNext(tr, Len(tr.chunks) + 1)

\* Lines 284-292: the next tracked id to fetch, from index i of the copy.
FetchNext(tr, i) ==
    IF i <= Len(tr.mids) THEN [tr EXCEPT !.pc = "fetch", !.fi = i]
    ELSE ConvergeNext(tr)

\* Lines 276-284: the text, the chunks, and the copy of the tracked ids.
BuildStep(tr, gs) ==
    LET text == build_summary_from_guild(tr.user_map, roles, gs.excluded_role_ids) IN
    IF text = NoText THEN Return(tr, 0)
    ELSE IF Missing(gs, "summary_message_ids") THEN Raise(tr)
    ELSE FetchNext([tr EXCEPT !.chunks = split_text_lines(text, MAX_DISCORD_LEN),
                              !.mids = gs.summary_message_ids,
                              !.prev = lastChunks,
                              !.old_msgs = <<>>, !.used_ids = <<>>], 1)

\* apply_auto_role without the tests of the permission and of the hierarchy.
apply_auto_role_unchecked(member, gs) ==
    IF Missing(gs, "auto_role_id") THEN "raise"
    ELSE IF gs.auto_role_id = None THEN "skip"
    ELSE IF gs.auto_role_id \in roles[member] THEN "skip"
    ELSE "grant"

\* _apply_auto_role up to its await: "raise" (the attribute is absent),
\* "skip" (it returns False), or "grant" (add_roles is awaited).
apply_auto_role(member, gs) ==
    IF Missing(gs, "auto_role_id") THEN "raise"
    ELSE IF gs.auto_role_id = None THEN "skip"
    ELSE IF gs.auto_role_id \notin RoleIds THEN "skip"
    ELSE IF gs.auto_role_id \in roles[member] THEN "skip"
    ELSE IF ~manage_roles THEN "skip"
    ELSE IF RolePosition(gs.auto_role_id) >= RolePosition(BotTopRole) THEN "skip"
    ELSE "grant"

\* Lines 265-269: the backfill from index i of user_map, up to the next
\* add_roles.
RECURSIVE GrantNext(_, _, _)
GrantNext(tr, i, gs) ==
    IF i > Len(tr.user_map) THEN BuildStep(tr, gs)
    ELSE LET how == apply_auto_role(tr.user_map[i][1], gs) IN
         IF how = "raise" THEN Raise(tr)
         ELSE IF how = "grant"
         THEN [tr EXCEPT !.pc = "grant", !.gi = i, !.grole = gs.auto_role_id]
         ELSE GrantNext(tr, i + 1, gs)

\* RescanStart without the test of enabled.
RescanStartUnguarded(tr0, gs) ==
    LET tr == [tr0 EXCEPT !.scan = "in", !.seenOrphans = orphans] IN
    IF gs.summary_channel_id = None THEN Return(tr, 0)
    ELSE IF gs.summary_channel_id \notin liveChannels THEN Return(tr, 0)
    ELSE IF gs.source_channel_id = None THEN Return(tr, 0)
    ELSE IF gs.source_channel_id \notin liveChannels THEN Return(tr, 0)
    ELSE [tr EXCEPT !.pc = "history", !.summary_ch = gs.summary_channel_id,
                    !.src = gs.source_channel_id]

\* Lines 247-257 and 94-109: the guards of rebuild_summary and of
\* collect_intro_user_map, up to the read of the history.
RescanStart(tr0, gs) ==
    LET tr == [tr0 EXCEPT !.scan = "in", !.seenOrphans = orphans] IN
    IF ~gs.enabled \/ gs.summary_channel_id = None THEN Return(tr, 0)
    ELSE IF gs.summary_channel_id \notin liveChannels THEN Return(tr, 0)
    ELSE IF gs.source_channel_id = None THEN Return(tr, 0)
    ELSE IF gs.source_channel_id \notin liveChannels THEN Return(tr, 0)
    ELSE [tr EXCEPT !.pc = "history", !.summary_ch = gs.summary_channel_id,
                    !.src = gs.source_channel_id]

\* Record keeping the name the map already has for the member.
RecordFirst(user_map, member, ign) ==
    IF InMap(user_map, member) THEN user_map
    ELSE Append(user_map, <<member, ign>>)

\* Line 125: user_map[member.id] = (member, ign). A dict keeps the position
\* of a key it already has.
Record(user_map, member, ign) ==
    LET at == {i \in 1..Len(user_map) : user_map[i][1] = member} IN
    IF at = {} THEN Append(user_map, <<member, ign>>)
    ELSE [user_map EXCEPT ![CHOOSE i \in at : TRUE] = <<member, ign>>]

\* Lines 107-127: the map as a sequence of <<member, ign>> in the order the
\* members were first recorded (a dict keeps a key's first position), over
\* the messages left.
RECURSIVE CollectLoop(_, _, _, _)
CollectLoop(hist, src, gs, user_map) ==
    IF hist = <<>> THEN user_map
    ELSE LET msg == Head(hist)
             ign == extract_ign(msg.content, gs.ign_keywords)
             skip == \/ msg.ch # src
                     \/ IsBot(msg.author)
                     \/ ign = NoIgn
                     \/ IsExcluded(roles[msg.author], gs.excluded_role_ids)
         IN  CollectLoop(Tail(hist), src, gs,
                 IF skip THEN user_map ELSE Record(user_map, msg.author, ign))

collect_intro_user_map(src, gs) == CollectLoop(history, src, gs, <<>>)

\* ------------------------------------------------------------ clear_summary
\* Lines 325-334: the next tracked id to fetch and delete, from index i; with
\* none left the list is reset (pc "ccommit": the action assigns [] and
\* returns the count).
ClearNext(tr, i) ==
    IF i <= Len(tr.mids) THEN [tr EXCEPT !.pc = "cfetch", !.fi = i]
    ELSE [tr EXCEPT !.pc = "ccommit"]

\* Lines 314-325.
ClearStart(tr, gs) ==
    IF gs.summary_channel_id = None
    THEN Return([tr EXCEPT !.left = gs.summary_message_ids], 0)
    ELSE IF gs.summary_channel_id \notin liveChannels
    THEN Return([tr EXCEPT !.left = gs.summary_message_ids], 0)
    ELSE IF Missing(gs, "summary_message_ids") THEN Raise(tr)
    ELSE ClearNext([tr EXCEPT !.summary_ch = gs.summary_channel_id,
                              !.mids = gs.summary_message_ids, !.deleted = 0], 1)

\* ------------------------------------------------------------ the handlers
\* The ids a rescan sent itself.
SentIds(tr) == {tr.writes[i].id : i \in {j \in 1..Len(tr.writes) : tr.writes[j].sent}}

\* CommitIds keeping the ids of the old messages.
CommitIdsOld(tr) == tr.old_msgs

\* The value line 309 assigns.
CommitIds(tr) == tr.used_ids

\* Land recording the ids written so far when the rescan raises.
LandRecording(t, nt, gs) ==
    /\ task' = [task EXCEPT ![t] =
                   IF nt.pc = "commit" THEN Return(nt, 1)
                   ELSE IF nt.pc = "ccommit"
                   THEN Return([nt EXCEPT !.left = <<>>], nt.deleted)
                   ELSE nt]
    /\ settings' = IF nt.pc = "commit" \/ (nt.pc = "raised" /\ nt.used_ids # <<>>)
                   THEN <<Assign(gs, "summary_message_ids", nt.used_ids)>>
                   ELSE IF nt.pc = "ccommit"
                   THEN <<Assign(gs, "summary_message_ids", <<>>)>>
                   ELSE <<gs>>
    /\ lastChunks' = IF nt.pc = "commit" THEN nt.chunks
                     ELSE IF nt.pc = "ccommit" THEN <<>>
                     ELSE lastChunks
    /\ orphans' = IF nt.pc = "raised" THEN orphans \cup SentIds(nt) ELSE orphans

\* The handler of slot t reaches nt with the settings gs: the assignments of
\* lines 309 and 332 are made here, when the code has reached them.
Land(t, nt, gs) ==
    /\ task' = [task EXCEPT ![t] =
                   IF nt.pc = "commit" THEN Return(nt, 1)
                   ELSE IF nt.pc = "ccommit"
                   THEN Return([nt EXCEPT !.left = <<>>], nt.deleted)
                   ELSE nt]
    /\ settings' = IF nt.pc = "commit"
                   THEN <<Assign(gs, "summary_message_ids", CommitIds(nt))>>
                   ELSE IF nt.pc = "ccommit"
                   THEN <<Assign(gs, "summary_message_ids", <<>>)>>
                   ELSE <<gs>>
    /\ lastChunks' = IF nt.pc = "commit" THEN nt.chunks
                     ELSE IF nt.pc = "ccommit" THEN <<>>
                     ELSE lastChunks
    /\ orphans' = IF nt.pc = "raised" THEN orphans \cup SentIds(nt) ELSE orphans

IdleSlots == {t \in Tasks : task[t].pc = "idle"}
FreeSlot == CHOOSE t \in IdleSlots : \A u \in IdleSlots : t <= u

\* A new handler's record.
Started(kind, caller) ==
    [Idle EXCEPT !.kind = kind, !.caller = caller, !.pc = "respond"]

\* s.split(","), each part stripped, the empty ones dropped.
RECURSIVE ParseKeywords(_)
ParseKeywords(s) ==
    LET i    == IndexFrom(s, ",", 1)
        part == Strip(IF i = 0 THEN s ELSE SubSeq(s, 1, i - 1))
        rest == IF i = 0 THEN <<>> ELSE ParseKeywords(Drop(s, i))
    IN  IF part # <<>> THEN <<part>> \o rest ELSE rest

\* Lines 182-194 and 92-103: the fields a command provides.
\* A keywords argument of NoKeywords is the argument left out (None); an
\* empty string does the same, having no parts.
NoKeywords == <<>>
WithArgs(gs, src, sum, kw, ar, nr) ==
    LET a == [gs EXCEPT
                !.source_channel_id  = IF src # None THEN src ELSE @,
                !.summary_channel_id = IF sum # None THEN sum ELSE @,
                !.ign_keywords       = IF kw # NoKeywords /\ ParseKeywords(kw) # <<>>
                                       THEN ParseKeywords(kw) ELSE @]
        b == IF ar # None THEN Assign(a, "auto_role_id", ar) ELSE a
    IN  IF nr # None THEN Assign(b, "newbie_role_id", nr) ELSE b

\* The arguments the commands are given, and the messages the members post.
Args(src, sum, kw, ar, nr) == [src |-> src, sum |-> sum, kw |-> kw, ar |-> ar, nr |-> nr]
EnableArgs ==
    {Args("c1", "c2", <<" ", "h", ",", ",">>, None, None),
     Args("c1", "c2", NoKeywords, "r1", "r2"),
     Args("c1", "c2", <<"h", ",", "k", "w">>, "r1", "r2")}
SetArgs ==
    {Args(None, None, NoKeywords, None, None),
     Args(None, "c1", NoKeywords, None, None),
     Args(None, None, <<"h">>, "r2", "r2")}
IntroMessages ==
    {[ch |-> "c1", author |-> "m1", content |-> <<"k", "w", ":", "b">>],
     [ch |-> "c1", author |-> "m2", content |-> <<"h", "i">>],
     [ch |-> "c2", author |-> "m1", content |-> <<"k", "w", ":", "b">>],
     [ch |-> "c1", author |-> "bot", content |-> <<"k", "w", ":", "b">>]}
RoleSets == {{}, {"r1"}}

CanDispatch == events < MaxEvents /\ IdleSlots # {}

\* A command from a caller ensure_admin refuses: the rejection is sent and
\* the handler returns.
Reject(kind, caller) ==
    /\ task' = [task EXCEPT ![FreeSlot] =
                   [Idle EXCEPT !.kind = kind, !.caller = caller, !.pc = "rejected"]]
    /\ UNCHANGED <<settings, lastChunks, orphans>>

\* /guildname enable (ui.py 65-120), up to the await of its response.
Enable(caller, a) ==
    /\ CanDispatch
    /\ events' = events + 1
    /\ IF ~ensure_admin(caller) THEN Reject("enable", caller)
       ELSE /\ settings' = <<[WithArgs(get_settings, a.src, a.sum, a.kw, a.ar, a.nr)
                                 EXCEPT !.enabled = TRUE]>>
            /\ task' = [t \in Tasks |->
                          IF t = FreeSlot
                          THEN [Started("enable", caller) EXCEPT !.sawOn = TRUE]
                          ELSE IF task[t].pc \in {"idle", "rejected", "done", "raised"}
                          THEN task[t]
                          ELSE [task[t] EXCEPT !.sawOn = TRUE]]
            /\ UNCHANGED <<lastChunks, orphans>>
    /\ UNCHANGED <<pure, manage_roles, declared, liveChannels, msgs, history, roles, envSteps, faults>>

\* /guildname disable (ui.py 129-146).
Disable(caller) ==
    /\ CanDispatch
    /\ events' = events + 1
    /\ IF ~ensure_admin(caller) THEN Reject("disable", caller)
       ELSE /\ settings' = <<[get_settings EXCEPT !.enabled = FALSE]>>
            /\ task' = [task EXCEPT ![FreeSlot] = Started("disable", caller)]
            /\ UNCHANGED <<lastChunks, orphans>>
    /\ UNCHANGED <<pure, manage_roles, declared, liveChannels, msgs, history, roles, envSteps, faults>>

\* /guildname set (ui.py 155-220), up to the await of its response: the
\* response's text reads auto_role_id and newbie_role_id.
Set(caller, a) ==
    /\ CanDispatch
    /\ events' = events + 1
    /\ IF ~ensure_admin(caller) THEN Reject("set", caller)
       ELSE LET gs == WithArgs(get_settings, a.src, a.sum, a.kw, a.ar, a.nr)
                tr == [Started("set", caller) EXCEPT !.sawOn = gs.enabled]
            IN  /\ settings' = <<gs>>
                /\ task' = [task EXCEPT ![FreeSlot] =
                              IF Missing(gs, "auto_role_id") \/ Missing(gs, "newbie_role_id")
                              THEN Raise(tr) ELSE tr]
                /\ UNCHANGED <<lastChunks, orphans>>
    /\ UNCHANGED <<pure, manage_roles, declared, liveChannels, msgs, history, roles, envSteps, faults>>

\* /guildname update (ui.py 269-280) and /guildname clear (ui.py 39-50), up
\* to the await of the deferral.
Deferred(kind, caller) ==
    /\ CanDispatch
    /\ events' = events + 1
    /\ IF ~ensure_admin(caller) THEN Reject(kind, caller)
       ELSE /\ task' = [task EXCEPT ![FreeSlot] =
                          [Started(kind, caller) EXCEPT
                              !.sawOn = settings # <<>> /\ settings[1].enabled]]
            /\ UNCHANGED <<settings, lastChunks, orphans>>
    /\ UNCHANGED <<pure, manage_roles, declared, liveChannels, msgs, history, roles, envSteps, faults>>

Update(caller) == Deferred("update", caller)
Clear(caller) == Deferred("clear", caller)

\* Whether on_message (ui.py 26-30) and on_intro_message (service.py 340-352)
\* let the message through to the role grant and the rescan.
Qualifies(ch, author, content, gs) ==
    /\ ~IsBot(author)
    /\ gs.enabled
    /\ ch = gs.source_channel_id
    /\ extract_ign(content, gs.ign_keywords) # NoIgn

\* A member posts a message in a channel: it joins the history, and
\* on_message runs up to its first await.
Message(m) ==
    /\ events < MaxEvents
    /\ m.ch \in liveChannels
    /\ events' = events + 1
    /\ history' = Append(history, m)
    /\ LET gs == get_settings IN
       IF IsBot(m.author)
       THEN UNCHANGED <<settings, task, lastChunks, orphans>>
       ELSE IF ~Qualifies(m.ch, m.author, m.content, gs)
       THEN /\ settings' = <<gs>>
            /\ UNCHANGED <<task, lastChunks, orphans>>
       ELSE /\ IdleSlots # {}
            /\ LET tr  == [Idle EXCEPT !.kind = "on_message", !.author = m.author,
                                       !.sawOn = TRUE]
                   how == apply_auto_role(m.author, gs)
               IN  Land(FreeSlot,
                        IF how = "raise" THEN Raise(tr)
                        ELSE IF how = "grant"
                        THEN [tr EXCEPT !.pc = "hookgrant", !.grole = gs.auto_role_id]
                        ELSE RescanStart(tr, gs),
                        gs)
    /\ UNCHANGED <<pure, manage_roles, declared, liveChannels, msgs, roles, envSteps, faults>>

\* The response (or the deferral) of a command is sent; the handler goes on.
Respond(t) ==
    /\ task[t].pc = "respond"
    /\ LET tr == task[t]
           gs == get_settings
       IN  Land(t,
                CASE tr.kind = "enable" -> RescanStart(tr, gs)
                  [] tr.kind = "update" -> RescanStart(tr, gs)
                  [] tr.kind = "set" -> IF gs.enabled THEN RescanStart(tr, gs)
                                        ELSE Return(tr, 0)
                  [] tr.kind = "clear" -> ClearStart(tr, gs)
                  [] OTHER -> Return(tr, 0),
                gs)
    /\ UNCHANGED <<pure, manage_roles, declared, liveChannels, msgs, history, roles, events, envSteps, faults>>

\* A call of the platform ends: it succeeds only if it can, and it fails
\* either because it cannot succeed or by a failure of the platform.
Outcome(ok, can) ==
    /\ ok => can
    /\ ~ok /\ can => faults < MaxFaults
    /\ faults' = IF ~ok /\ can THEN faults + 1 ELSE faults

\* on_intro_message's add_roles (line 355) ends, granted or refused; the
\* rescan starts.
HookGrant(t, ok) ==
    /\ task[t].pc = "hookgrant"
    /\ Outcome(ok, manage_roles)
    /\ roles' = IF ok THEN [roles EXCEPT ![task[t].author] = @ \cup {task[t].grole}]
                ELSE roles
    /\ Land(t, RescanStart(task[t], get_settings), get_settings)
    /\ UNCHANGED <<pure, manage_roles, declared, liveChannels, msgs, history, events, envSteps>>

\* source.history(...) has been read (lines 109-127), or the read raises.
History(t, ok) ==
    /\ task[t].pc = "history"
    /\ Outcome(ok, task[t].src \in liveChannels)
    /\ LET gs == get_settings
           tr == [task[t] EXCEPT !.user_map = collect_intro_user_map(task[t].src, gs)]
       IN  Land(t,
                IF ~ok THEN Raise(task[t])
                ELSE IF tr.user_map = <<>> THEN Return(tr, 0)
                ELSE GrantNext(tr, 1, gs),
                gs)
    /\ UNCHANGED <<pure, manage_roles, declared, liveChannels, msgs, history, roles, events, envSteps>>

\* The backfill's add_roles (line 155) ends: granted, then the pause of line
\* 269; or refused, and the loop goes on.
GrantRole(t, ok) ==
    /\ task[t].pc = "grant"
    /\ Outcome(ok, manage_roles)
    /\ LET m == task[t].user_map[task[t].gi][1] IN
       IF ok
       THEN /\ roles' = [roles EXCEPT ![m] = @ \cup {task[t].grole}]
            /\ task' = [task EXCEPT ![t].pc = "sleep"]
            /\ UNCHANGED <<settings, lastChunks, orphans>>
       ELSE /\ roles' = roles
            /\ Land(t, GrantNext([task[t] EXCEPT !.refused = @ \cup {m}],
                                 task[t].gi + 1, get_settings), get_settings)
    /\ UNCHANGED <<pure, manage_roles, declared, liveChannels, msgs, history, events, envSteps>>

\* asyncio.sleep(0.2) (line 269) ends.
Sleep(t) ==
    /\ task[t].pc = "sleep"
    /\ Land(t, GrantNext(task[t], task[t].gi + 1, get_settings), get_settings)
    /\ UNCHANGED <<pure, manage_roles, declared, liveChannels, msgs, history, roles, events, envSteps, faults>>

\* Whether the channel holds a message of this id.
Found(ch, id) ==
    /\ ch \in liveChannels
    /\ id \in 1..Len(msgs)
    /\ msgs[id].live
    /\ msgs[id].ch = ch

\* OnForbidden leaving the loop with the messages fetched so far.
OnForbiddenKeep(tr) == [tr EXCEPT !.denied = TRUE]

\* Lines 290-292: Forbidden empties old_msgs and ends the loop of fetches.
OnForbidden(tr) == [tr EXCEPT !.old_msgs = <<>>, !.denied = TRUE]

\* OnNotFound taking the id for a fetched message.
OnNotFoundKeep(tr, id) == [tr EXCEPT !.old_msgs = Append(@, id), !.gone = @ \cup {id}]

\* Lines 288-289: NotFound is passed over, the loop goes on.
OnNotFound(tr, id) == [tr EXCEPT !.gone = @ \cup {id}]

\* summary_ch.fetch_message(mid) (lines 285-292) ends: the message, NotFound,
\* Forbidden, or another error, which the loop does not catch.
Fetch(t, outcome) ==
    /\ task[t].pc = "fetch"
    /\ LET tr == task[t]
           id == tr.mids[tr.fi]
       IN  /\ outcome = "ok" => Found(tr.summary_ch, id) /\ faults' = faults
           /\ outcome = "notfound" => ~Found(tr.summary_ch, id) /\ faults' = faults
           /\ outcome \in {"forbidden", "error"} =>
                  faults < MaxFaults /\ faults' = faults + 1
           /\ Land(t,
                   CASE outcome = "ok" ->
                          FetchNext([tr EXCEPT !.old_msgs = Append(@, id)], tr.fi + 1)
                     [] outcome = "notfound" -> FetchNext(OnNotFound(tr, id), tr.fi + 1)
                     [] outcome = "forbidden" -> ConvergeNext(OnForbidden(tr))
                     [] OTHER -> Raise(tr),
                   get_settings)
    /\ UNCHANGED <<pure, manage_roles, declared, liveChannels, msgs, history, roles, events, envSteps>>

\* old_msgs[i].edit(content=chunk) (lines 297-298) ends.
Edit(t, ok) ==
    /\ task[t].pc = "edit"
    /\ LET tr == task[t]
           i  == Len(tr.used_ids) + 1
           id == tr.old_msgs[i]
       IN  /\ Outcome(ok, Found(msgs[id].ch, id))
           /\ msgs' = IF ok THEN [msgs EXCEPT ![id].content = tr.chunks[i]] ELSE msgs
           /\ Land(t,
                   IF ok
                   THEN ConvergeNext([tr EXCEPT
                            !.used_ids = Append(@, id),
                            !.writes = Append(@, [id |-> id, content |-> tr.chunks[i],
                                                  sent |-> FALSE])])
                   ELSE Raise(tr),
                   get_settings)
    /\ UNCHANGED <<pure, manage_roles, declared, liveChannels, history, roles, events, envSteps>>

\* summary_ch.send(chunk) (lines 300-301) ends.
Send(t, ok) ==
    /\ task[t].pc = "send"
    /\ LET tr == task[t]
           i  == Len(tr.used_ids) + 1
           id == Len(msgs) + 1
       IN  /\ ok => Len(msgs) < MaxMsgs
           /\ Outcome(ok, tr.summary_ch \in liveChannels)
           /\ msgs' = IF ok
                      THEN Append(msgs, [ch |-> tr.summary_ch, content |-> tr.chunks[i],
                                         live |-> TRUE])
                      ELSE msgs
           /\ Land(t,
                   IF ok
                   THEN ConvergeNext([tr EXCEPT
                            !.used_ids = Append(@, id),
                            !.writes = Append(@, [id |-> id, content |-> tr.chunks[i],
                                                  sent |-> TRUE])])
                   ELSE Raise(tr),
                   get_settings)
    /\ UNCHANGED <<pure, manage_roles, declared, liveChannels, history, roles, events, envSteps>>

\* old_msgs[j].delete() (lines 304-307) ends; a failure is swallowed.
Delete(t, ok) ==
    /\ task[t].pc = "delete"
    /\ LET tr == task[t]
           id == tr.old_msgs[tr.di]
       IN  /\ Outcome(ok, Found(msgs[id].ch, id))
           /\ msgs' = IF ok THEN [msgs EXCEPT ![id].live = FALSE] ELSE msgs
           /\ Land(t,
                   DeleteNext([tr EXCEPT !.delTried = @ \cup {id},
                                         !.delFailed = IF ok THEN @ ELSE @ \cup {id}],
                              tr.di + 1),
                   get_settings)
    /\ UNCHANGED <<pure, manage_roles, declared, liveChannels, history, roles, events, envSteps>>

\* clear_summary's fetch_message (line 327) ends; a failure is swallowed.
ClearFetch(t, ok) ==
    /\ task[t].pc = "cfetch"
    /\ LET tr == task[t] IN
       /\ Outcome(ok, Found(tr.summary_ch, tr.mids[tr.fi]))
       /\ Land(t,
               IF ok THEN [tr EXCEPT !.pc = "cdelete"] ELSE ClearNext(tr, tr.fi + 1),
               get_settings)
    /\ UNCHANGED <<pure, manage_roles, declared, liveChannels, msgs, history, roles, events, envSteps>>

\* clear_summary's delete (lines 328-329) ends; a failure is swallowed.
ClearDelete(t, ok) ==
    /\ task[t].pc = "cdelete"
    /\ LET tr == task[t]
           id == tr.mids[tr.fi]
       IN  /\ Outcome(ok, Found(tr.summary_ch, id))
           /\ msgs' = IF ok THEN [msgs EXCEPT ![id].live = FALSE] ELSE msgs
           /\ Land(t,
                   ClearNext([tr EXCEPT !.deleted = IF ok THEN @ + 1 ELSE @,
                                        !.delTried = @ \cup {id},
                                        !.delFailed = IF ok THEN @ ELSE @ \cup {id}],
                             tr.fi + 1),
                   get_settings)
    /\ UNCHANGED <<pure, manage_roles, declared, liveChannels, history, roles, events, envSteps>>

\* The handler's last message to the caller is sent; its task ends.
Finish(t) ==
    /\ task[t].pc \in {"done", "raised", "rejected"}
    /\ task' = [task EXCEPT ![t] = Idle]
    /\ UNCHANGED <<pure, manage_roles, declared, settings, liveChannels, msgs, history, roles, events,
                   envSteps, faults, lastChunks, orphans>>

\* ------------------------------------------------------- the other actors
\* Someone deletes one of the bot's messages.
ExternalDelete(id) ==
    /\ envSteps < MaxEnv
    /\ id \in 1..Len(msgs) /\ msgs[id].live
    /\ envSteps' = envSteps + 1
    /\ msgs' = [msgs EXCEPT ![id].live = FALSE]
    /\ UNCHANGED <<pure, manage_roles, declared, settings, liveChannels, history, roles, task, events,
                   faults, lastChunks, orphans>>

\* Someone changes a member's roles.
SetRoles(m, rs) ==
    /\ envSteps < MaxEnv
    /\ roles[m] # rs
    /\ envSteps' = envSteps + 1
    /\ roles' = [roles EXCEPT ![m] = rs]
    /\ UNCHANGED <<pure, manage_roles, declared, settings, liveChannels, msgs, history, task, events,
                   faults, lastChunks, orphans>>

\* Someone takes the permission to manage roles from the bot.
RevokePermission ==
    /\ envSteps < MaxEnv
    /\ manage_roles
    /\ envSteps' = envSteps + 1
    /\ manage_roles' = FALSE
    /\ UNCHANGED <<pure, declared, settings, liveChannels, msgs, history, roles, task,
                   events, faults, lastChunks, orphans>>

\* Someone deletes a channel, and its messages with it.
DeleteChannel(c) ==
    /\ envSteps < MaxEnv
    /\ c \in liveChannels
    /\ envSteps' = envSteps + 1
    /\ liveChannels' = liveChannels \ {c}
    /\ msgs' = [i \in 1..Len(msgs) |->
                  IF msgs[i].ch = c THEN [msgs[i] EXCEPT !.live = FALSE] ELSE msgs[i]]
    /\ UNCHANGED <<pure, manage_roles, declared, settings, history, roles, task, events, faults,
                   lastChunks, orphans>>

\* ------------------------------------------------------ the specification
\* The state after the cog is constructed: no settings entry, no handler in
\* flight. The two members hold the role r1.
Init ==
    /\ declared \in BOOLEAN
    /\ settings = <<>>
    /\ liveChannels = Channels
    /\ msgs = <<>>
    /\ history = <<>>
    /\ roles = [m \in Range(GuildMembers) |->
                  IF m = "bot" THEN {BotTopRole} ELSE {"r1"}]
    /\ task = [t \in Tasks |-> Idle]
    /\ events = 0
    /\ envSteps = 0
    /\ faults = 0
    /\ lastChunks = <<>>
    /\ orphans = {}
    /\ pure = NoCall
    /\ manage_roles = TRUE

Next ==
    \/ \E caller \in Callers, a \in EnableArgs : Enable(caller, a)
    \/ \E caller \in Callers : Disable(caller)
    \/ \E caller \in Callers, a \in SetArgs : Set(caller, a)
    \/ \E caller \in Callers : Update(caller)
    \/ \E caller \in Callers : Clear(caller)
    \/ \E m \in IntroMessages : Message(m)
    \/ \E t \in Tasks : Respond(t)
    \/ \E t \in Tasks, ok \in BOOLEAN : HookGrant(t, ok)
    \/ \E t \in Tasks, ok \in BOOLEAN : History(t, ok)
    \/ \E t \in Tasks, ok \in BOOLEAN : GrantRole(t, ok)
    \/ \E t \in Tasks : Sleep(t)
    \/ \E t \in Tasks, outcome \in {"ok", "notfound", "forbidden", "error"} :
          Fetch(t, outcome)
    \/ \E t \in Tasks, ok \in BOOLEAN : Edit(t, ok)
    \/ \E t \in Tasks, ok \in BOOLEAN : Send(t, ok)
    \/ \E t \in Tasks, ok \in BOOLEAN : Delete(t, ok)
    \/ \E t \in Tasks, ok \in BOOLEAN : ClearFetch(t, ok)
    \/ \E t \in Tasks, ok \in BOOLEAN : ClearDelete(t, ok)
    \/ \E t \in Tasks : Finish(t)
    \/ \E id \in 1..MaxMsgs : ExternalDelete(id)
    \/ \E m \in Humans, rs \in RoleSets : SetRoles(m, rs)
    \/ \E c \in Channels : DeleteChannel(c)
    \/ RevokePermission

Spec == Init /\ [][Next]_vars

\* ------------------------------------------------------------- properties
\* settings.summary_message_ids, empty while the guild has no entry or the
\* entry does not carry the attribute.
Tracked == IF settings = <<>> THEN <<>> ELSE settings[1].summary_message_ids

\* The step is the return of 1 from rebuild_summary in slot t (lines 309-311).
Commits(t) ==
    /\ task[t].pc # "done"
    /\ task'[t].pc = "done"
    /\ task'[t].scan = "out"
    /\ task'[t].result = 1

\* The step is a step of the handler in slot t.
Moves(t) == [task'[t] EXCEPT !.sawOn = task[t].sawOn] # task[t]

\* The ids a rescan wrote to, in the order of its writes.
WrittenIds(tr) == [i \in 1..Len(tr.writes) |-> tr.writes[i].id]

\* A slot holds a rescan between its read of summary_message_ids (line 284)
\* and its write (line 309), suspended at a fetch, an edit, a send or a delete.
InSpan(t) == task[t].scan = "in" /\ task[t].pc \in {"fetch", "edit", "send", "delete"}

C8_ClearResets ==
    \A t \in Tasks :
        (task[t].kind = "clear" /\ task[t].pc \in {"done", "raised"})
        => /\ task[t].pc = "done"
           /\ task[t].result = Cardinality(task[t].delTried \ task[t].delFailed)
           /\ task[t].left = <<>>

\* The pcs at which a handler awaits a role grant or a call on the summary
\* channel made by on_intro_message or rebuild_summary.
Acting == {"hookgrant", "history", "grant", "sleep", "fetch", "edit", "send", "delete"}

\* C9: a rescan that starts while enabled is false, or while the source or
\* the summary channel is unset, returns 0 in that step with the messages
\* and summary_message_ids unchanged, and with the roles unchanged unless
\* the step ends the add_roles of on_intro_message; and a handler that is
\* granting a role or working on the summary channel saw enabled true at
\* its dispatch or since.
C9_MasterSwitch ==
    [][\A t \in Tasks :
         LET gs == get_settings IN
         /\ (/\ task[t].scan = "no"
             /\ task'[t].scan # "no"
             /\ ~gs.enabled \/ gs.source_channel_id = None \/ gs.summary_channel_id = None)
            => /\ task'[t].pc = "done"
               /\ task'[t].result = 0
               /\ msgs' = msgs
               /\ Tracked' = Tracked
               /\ task[t].pc # "hookgrant" => roles' = roles
         /\ (task'[t].kind # "clear" /\ task'[t].pc \in Acting) => task'[t].sawOn]_vars

\* An update dispatched after a disable has returned 0 at the guard.
C9_Witness ==
    \E t \in Tasks :
        /\ task[t].kind = "update"
        /\ task[t].pc = "done" /\ task[t].scan = "out" /\ task[t].result = 0
        /\ ~task[t].sawOn
        /\ settings # <<>>
        /\ ~settings[1].enabled
        /\ settings[1].source_channel_id # None
        /\ settings[1].summary_channel_id # None

Commands == {"enable", "disable", "set", "update", "clear"}

\* C10: a command dispatched for a caller who is not an administrator of
\* the guild is rejected in that step, which changes nothing but the
\* handler's slot: no settings entry is made or changed, no message and no
\* role changes; and the rejected handler does nothing but end.
C10_AdminGating ==
    [][\A t \in Tasks :
         /\ (/\ task[t].pc = "idle"
             /\ task'[t].pc # "idle"
             /\ task'[t].kind \in Commands
             /\ task'[t].caller # "admin")
            => /\ task'[t].pc = "rejected"
               /\ UNCHANGED <<settings, msgs, roles, history, lastChunks>>
         /\ (task[t].pc = "rejected" /\ Moves(t))
            => /\ task'[t] = Idle
               /\ UNCHANGED <<settings, msgs, roles, history, lastChunks>>]_vars

\* An enable by a member without the permission has been rejected, and the
\* guild still has no settings entry.
C10_Witness ==
    \E t \in Tasks :
        /\ task[t].pc = "rejected"
        /\ task[t].kind = "enable"
        /\ task[t].caller = "member"
        /\ settings = <<>>

\* The entry new is the entry old after a set with the arguments a: a field
\* whose argument is left out is as it was, a channel or a role given is
\* assigned, and keywords given are the parsed list, or leave the list as it
\* was when they have no part.
SetExplains(old, new, a) ==
    /\ new.source_channel_id = IF a.src # None THEN a.src ELSE old.source_channel_id
    /\ new.summary_channel_id = IF a.sum # None THEN a.sum ELSE old.summary_channel_id
    /\ a.kw = NoKeywords => new.ign_keywords = old.ign_keywords
    /\ new.ign_keywords \in {old.ign_keywords, ParseKeywords(a.kw)}
    /\ new.auto_role_id = IF a.ar # None THEN a.ar ELSE old.auto_role_id
    /\ new.newbie_role_id = IF a.nr # None THEN a.nr ELSE old.newbie_role_id
    /\ new.attrs = old.attrs \cup (IF a.ar # None THEN {"auto_role_id"} ELSE {})
                             \cup (IF a.nr # None THEN {"newbie_role_id"} ELSE {})

\* C11 as stated: the step that dispatches a set of an administrator leaves
\* enabled, excluded_role_ids and summary_message_ids as they were and
\* changes the other fields as some arguments of set explain; and the
\* handler starts a rescan if and only if enabled is true when it has
\* responded: it does not end without a rescan while enabled is true, and it
\* starts none while enabled is false.
C11_SetFrameAndRescan ==
    [][\A t \in Tasks :
         LET old == get_settings IN
         /\ (/\ task[t].pc = "idle"
             /\ task'[t].pc # "idle"
             /\ task'[t].kind = "set"
             /\ task'[t].caller = "admin")
            => /\ settings' # <<>>
               /\ settings'[1].enabled = old.enabled
               /\ settings'[1].excluded_role_ids = old.excluded_role_ids
               /\ settings'[1].summary_message_ids = old.summary_message_ids
               /\ \E a \in SetArgs : SetExplains(old, settings'[1], a)
               /\ UNCHANGED <<msgs, roles, history, lastChunks>>
               /\ task'[t].pc = "raised" => ~old.enabled
         /\ (task[t].kind = "set" /\ task[t].pc = "respond" /\ Moves(t))
            => /\ task'[t].scan # "no" <=> old.enabled
               /\ ~old.enabled => task'[t].pc = "done" /\ settings' = <<old>>]_vars

\* C14 as stated: the guild's entry, once get_settings has created it,
\* carries every field of the data model that status, clear and a first
\* rescan read (auto_role_id and summary_message_ids among them), and the
\* entry get_settings creates has the defaults: enabled false, both channels
\* unset, no excluded role, the default keyword, no auto role, no tracked id.
C14_DefaultValuedEntry ==
    LET gs == get_settings IN
    /\ settings # <<>> =>
          /\ ~Missing(gs, "auto_role_id")
          /\ ~Missing(gs, "summary_message_ids")
    /\ settings = <<>> =>
          /\ ~gs.enabled
          /\ gs.source_channel_id = None
          /\ gs.summary_channel_id = None
          /\ gs.excluded_role_ids = {}
          /\ gs.ign_keywords = <<DefaultKeyword>>
          /\ gs.auto_role_id = None
          /\ gs.summary_message_ids = <<>>

\* C19 as stated: a rescan past its guards returns 0 only if the builder
\* yields no roster: when it returns 0 after the read of the history, the
\* builder gives no text for the map it collected, and no member who is not
\* a bot holds a role other than @everyone and no excluded role.
C19_ZeroOnlyWithoutRoster ==
    [][\A t \in Tasks :
         (/\ task[t].scan = "in"
          /\ task[t].pc \in {"history", "grant", "sleep"}
          /\ task'[t].pc = "done"
          /\ task'[t].result = 0)
         => /\ build_summary_from_guild(task'[t].user_map, roles',
                                        get_settings.excluded_role_ids) = NoText
            /\ \A m \in Humans :
                  roles'[m] = {} \/ roles'[m] \cap get_settings.excluded_role_ids # {}]_vars

RECURSIVE InOrderWithin(_, _)
InOrderWithin(a, b) ==
    IF a = <<>> THEN TRUE
    ELSE IF b = <<>> THEN FALSE
    ELSE IF Head(a) = Head(b) THEN InOrderWithin(Tail(a), Tail(b))
    ELSE InOrderWithin(a, Tail(b))

BackfillInit ==
    /\ declared \in BOOLEAN
    /\ settings = <<>>
    /\ liveChannels = Channels
    /\ msgs = <<>>
    /\ history = <<[ch |-> "c1", author |-> "m1", content |-> <<"k", "w", ":", "b">>],
                   [ch |-> "c1", author |-> "m2", content |-> <<"h", "i">>]>>
    /\ roles = [m \in Range(GuildMembers) |->
                  IF m = "bot" THEN {BotTopRole} ELSE {}]
    /\ task = [t \in Tasks |-> Idle]
    /\ events = 1
    /\ envSteps = 0
    /\ faults = 0
    /\ lastChunks = <<>>
    /\ orphans = {}
    /\ pure = NoCall
    /\ manage_roles = TRUE

SpecBackfill == BackfillInit /\ [][Next]_vars

\* The member at place i of the rescan's map may be granted the role r: the
\* role exists, the member lacks it, the bot may manage roles and its top
\* role is strictly above r.
Grantable(tr, i, r) ==
    /\ r \in RoleIds
    /\ r \notin roles[tr.user_map[i][1]]
    /\ manage_roles
    /\ RolePosition(r) < RolePosition(BotTopRole)

C23_MessageTrigger ==
    [][/\ \A m \in IntroMessages :
            history' = Append(history, m) =>
               IF Qualifies(m.ch, m.author, m.content, get_settings)
               THEN \E t \in Tasks :
                       /\ task[t].pc = "idle"
                       /\ task'[t].kind = "on_message"
                       /\ task'[t].author = m.author
                       /\ task'[t].pc = "hookgrant" \/ task'[t].scan # "no"
               ELSE /\ UNCHANGED <<task, roles, msgs>>
                    /\ Tracked' = Tracked
       /\ \A t \in Tasks :
             (task[t].pc = "hookgrant" /\ task'[t].pc # "hookgrant") =>
                task'[t].scan # "no"]_vars

\* ------------------------------------------------------ an excluded role
\* A guild whose entry lists r2 in excluded_role_ids, the field of
\* settings.py:20 that collect_intro_user_map and build_summary_from_guild
\* read; m1 holds r2 or r1, and m2 has posted a name. Filling the field is
\* counted as one dispatch.
ExcludedInit ==
    /\ declared \in BOOLEAN
    /\ settings = <<[NewSettings EXCEPT !.excluded_role_ids = {"r2"}]>>
    /\ liveChannels = Channels
    /\ msgs = <<>>
    /\ history = <<[ch |-> "c1", author |-> "m2", content |-> <<"h", "i">>]>>
    /\ \E r \in RoleIds :
          roles = [m \in Range(GuildMembers) |->
                     IF m = "bot" THEN {BotTopRole}
                     ELSE IF m = "m1" THEN {r} ELSE {"r1"}]
    /\ task = [t \in Tasks |-> Idle]
    /\ events = 1
    /\ envSteps = 0
    /\ faults = 0
    /\ lastChunks = <<>>
    /\ orphans = {}
    /\ pure = NoCall
    /\ manage_roles = TRUE

SpecExcluded == ExcludedInit /\ [][Next]_vars

BackfillSkipsExcluded ==
    [][\A t \in Tasks, m \in Humans :
         (/\ task[t].pc = "grant"
          /\ task'[t] # task[t]
          /\ roles'[m] # roles[m])
         => roles[m] \cap get_settings.excluded_role_ids = {}]_vars

\* ---------------------------------------------------- the roster on its own
\* collect_intro_user_map and build_summary_from_guild applied to a history,
\* the members' roles and a settings entry drawn from the sets below, with
\* the roles the same for both.
MaxHistory == 3

RosterMessages ==
    {[ch |-> "c1", author |-> "m1", content |-> <<"k", "w", ":", "a">>],
     [ch |-> "c1", author |-> "m1", content |-> <<"k", "w", ":", "B">>],
     [ch |-> "c1", author |-> "m1", content |-> <<"h", "i">>],
     [ch |-> "c1", author |-> "m2", content |-> <<"k", "w", ":", "a">>],
     [ch |-> "c1", author |-> "m2", content |-> <<"k", "w", ":", "B">>],
     [ch |-> "c1", author |-> "bot", content |-> <<"k", "w", ":", "a">>]}
RosterRoleSets == {{}, {"r1"}, {"r2"}, {"r3"}, {"r1", "r2"}}
RosterExcluded == {{}, {"r1"}}

\* The variables the functions called on their own do not read.
Standstill ==
    /\ declared = FALSE
    /\ manage_roles = TRUE
    /\ liveChannels = Channels
    /\ msgs = <<>>
    /\ task = [t \in Tasks |-> Idle]
    /\ events = 0
    /\ envSteps = 0
    /\ faults = 0
    /\ lastChunks = <<>>
    /\ orphans = {}

RosterInit ==
    /\ Standstill
    /\ \E ex \in RosterExcluded :
          settings = <<[NewSettings EXCEPT !.enabled = TRUE,
                                           !.source_channel_id = "c1",
                                           !.summary_channel_id = "c2",
                                           !.excluded_role_ids = ex]>>
    /\ history \in UNION {[1..k -> RosterMessages] : k \in 0..MaxHistory}
    /\ \E f \in [Humans -> RosterRoleSets] :
          roles = [m \in Range(GuildMembers) |->
                     IF m = "bot" THEN {BotTopRole} ELSE f[m]]
    /\ pure = [fn |-> "roster", arg |-> <<>>, done |-> FALSE, out |-> <<>>]

\* Lines 257 and 276 without the backfill between them: arg is the map, out
\* the text.
Render ==
    /\ pure.fn = "roster"
    /\ ~pure.done
    /\ LET gs == get_settings
           user_map == collect_intro_user_map(gs.source_channel_id, gs)
       IN  pure' = [pure EXCEPT
                       !.arg = user_map,
                       !.done = TRUE,
                       !.out = build_summary_from_guild(user_map, roles,
                                                        gs.excluded_role_ids)]
    /\ UNCHANGED <<manage_roles, declared, settings, liveChannels, msgs, history, roles, task,
                   events, envSteps, faults, lastChunks, orphans>>

SpecRoster == RosterInit /\ [][Render]_vars

\* The roster has been rendered.
Rendered == pure.fn = "roster" /\ pure.done

\* The member lines of the rendered text, in order: "- ", the mention, " - ",
\* and either the label, ": " and the name, or the placeholder.
IsEntryLine(l) == Len(l) >= 2 /\ l[1] = "- "
EntryLines == SelectSeq(splitlines(pure.out), IsEntryLine)
EntryMember(l) == l[2]
EntryNamed(l) == Len(l) >= 5 /\ l[4] = "LBL"
EntryName(l) == SubSeq(l, 6, Len(l))
Shown(m) == {i \in 1..Len(EntryLines) : EntryMember(EntryLines[i]) = m}

\* The names the messages of member m in the source channel yield, oldest
\* first.
RECURSIVE YieldedNames(_, _)
YieldedNames(hist, m) ==
    IF hist = <<>> THEN <<>>
    ELSE LET msg == Head(hist)
             ign == extract_ign(msg.content, settings[1].ign_keywords)
         IN  (IF msg.author = m /\ msg.ch = settings[1].source_channel_id /\ ign # NoIgn
              THEN <<ign>> ELSE <<>>)
             \o YieldedNames(Tail(hist), m)

\* Member m is on the roster exactly once, with the name ign.
ShownOnceAs(m, ign) ==
    /\ Cardinality(Shown(m)) = 1
    /\ \A i \in Shown(m) : EntryNamed(EntryLines[i]) /\ EntryName(EntryLines[i]) = ign

TopPosition(l) == RolePosition(TopRole(roles[EntryMember(l)]))

\* C18 as stated: of two members on the roster, the one whose highest role
\* is higher in the hierarchy comes first; and of two members with the same
\* highest role, one with a name comes before one with the placeholder, and
\* two with names come in ascending order of their names, ignoring case.
C18_RosterOrdering ==
    Rendered =>
       \A i \in 1..Len(EntryLines), j \in 1..Len(EntryLines) :
          i < j =>
             LET a == EntryLines[i]
                 b == EntryLines[j]
             IN  /\ TopPosition(a) >= TopPosition(b)
                 /\ TopPosition(a) = TopPosition(b) =>
                       /\ EntryNamed(b) => EntryNamed(a)
                       /\ (EntryNamed(a) /\ EntryNamed(b)) =>
                             ~StrLess(LowerStr(EntryName(b)), LowerStr(EntryName(a)))

\* ------------------------------------------------ split_text_lines on its own
\* split_text_lines applied to every text of up to MaxText characters and
\* every limit from 1 to MaxLimit.
MaxText == 6
MaxLimit == 4
SplitAlphabet == {"a", " ", NL}

\* The state after construction, for a function that reads none of it.
Untouched ==
    /\ Standstill
    /\ settings = <<>>
    /\ history = <<>>
    /\ roles = [m \in Range(GuildMembers) |->
                  IF m = "bot" THEN {BotTopRole} ELSE {"r1"}]

SplitInit ==
    /\ Untouched
    /\ \E text \in UNION {[1..k -> SplitAlphabet] : k \in 0..MaxText},
          limit \in 1..MaxLimit :
          pure = [fn |-> "split", arg |-> [text |-> text, limit |-> limit],
                  done |-> FALSE, out |-> <<>>]

Split ==
    /\ pure.fn = "split"
    /\ ~pure.done
    /\ pure' = [pure EXCEPT !.done = TRUE,
                            !.out = split_text_lines(pure.arg.text, pure.arg.limit)]
    /\ UNCHANGED <<manage_roles, declared, settings, liveChannels, msgs, history, roles, task,
                   events, envSteps, faults, lastChunks, orphans>>

SpecSplit == SplitInit /\ [][Split]_vars

SplitDone == pure.fn = "split" /\ pure.done

\* C15: every chunk split_text_lines returns is at most limit long and is
\* neither empty nor whitespace only, for every text and every limit >= 1;
\* the empty text gives no chunk.
C15_ChunksWithinLimit ==
    SplitDone =>
       /\ \A i \in 1..Len(pure.out) :
             /\ Len(pure.out[i]) <= pure.arg.limit
             /\ Strip(pure.out[i]) # <<>>
       /\ pure.arg.text = <<>> => pure.out = <<>>

\* A text with a line longer than the limit was split into two chunks or
\* more.
C15_Witness ==
    /\ SplitDone
    /\ Len(pure.out) >= 2
    /\ \E i \in 1..Len(splitlines(pure.arg.text)) :
          Len(splitlines(pure.arg.text)[i]) + 1 > pure.arg.limit

\* The lines of the chunks, one chunk after the other.
RECURSIVE ChunkLines(_)
ChunkLines(chunks) ==
    IF chunks = <<>> THEN <<>>
    ELSE splitlines(Head(chunks)) \o ChunkLines(Tail(chunks))

\* No line of the text, with its newline, is longer than the limit.
NoLongLine ==
    \A i \in 1..Len(splitlines(pure.arg.text)) :
        Len(splitlines(pure.arg.text)[i]) + 1 <= pure.arg.limit

\* C16 as stated: when no line with its newline exceeds the limit, the lines
\* of the chunks, in order, are the lines of the text.
C16_LinesPreserved ==
    (SplitDone /\ NoLongLine) => ChunkLines(pure.out) = splitlines(pure.arg.text)

IsNonBlank(l) == Strip(l) # <<>>
RStripLines(ls) == [i \in 1..Len(ls) |-> RStrip(ls[i])]

\* a is b with some of its blank lines left out.
RECURSIVE BlanksLeftOut(_, _)
BlanksLeftOut(a, b) ==
    IF b = <<>> THEN a = <<>>
    ELSE \/ a # <<>> /\ Head(a) = Head(b) /\ BlanksLeftOut(Tail(a), Tail(b))
         \/ ~IsNonBlank(Head(b)) /\ BlanksLeftOut(a, Tail(b))

\* C16 amended: when no line with its newline exceeds the limit, the lines
\* of the chunks, in order and up to trailing whitespace, are the lines of
\* the text with some blank lines left out: every line that is not blank is
\* there once, in its place.
C16_NonBlankLinesPreserved ==
    (SplitDone /\ NoLongLine) =>
       BlanksLeftOut(RStripLines(ChunkLines(pure.out)),
                     RStripLines(splitlines(pure.arg.text)))

\* A text without a long line was split into two chunks at a blank line,
\* which is in neither.
C16_Witness ==
    /\ SplitDone
    /\ NoLongLine
    /\ Len(pure.out) = 2
    /\ Len(ChunkLines(pure.out)) < Len(splitlines(pure.arg.text))
    /\ \A i \in 1..Len(splitlines(pure.arg.text)) :
          splitlines(pure.arg.text)[i] \in {<<>>, <<"a">>}

\* ----------------------------------------------------- extract_ign on its own
\* extract_ign applied, with the default keyword, to every message made of
\* the keyword, ": " and up to MaxBody characters.
MaxBody == 5
ExtractAlphabet == {"A", " ", "I", "D", "u", "1", "THAIID"}

ExtractInit ==
    /\ Untouched
    /\ \E body \in UNION {[1..k -> ExtractAlphabet] : k \in 0..MaxBody} :
          pure = [fn |-> "extract", arg |-> DefaultKeyword \o <<":", " ">> \o body,
                  done |-> FALSE, out |-> <<>>]

Extract ==
    /\ pure.fn = "extract"
    /\ ~pure.done
    /\ pure' = [pure EXCEPT !.done = TRUE,
                            !.out = extract_ign(pure.arg, get_settings.ign_keywords)]
    /\ UNCHANGED <<manage_roles, declared, settings, liveChannels, msgs, history, roles, task,
                   events, envSteps, faults, lastChunks, orphans>>

SpecExtract == ExtractInit /\ [][Extract]_vars

\* "KEYWORD: Alice ID12345", with one character for the name and one digit.
AliceWithId == DefaultKeyword \o <<":", " ", "A", " ", "I", "D", "1">>

IsLetter(c) == IsWordChar(c) /\ c \notin {"1", "2", "_"}

\* The name holds a player-id field: the token ID or UID at the start of a
\* word and not running on into letters, or the localized token.
HasIdField(s) ==
    \E p \in 1..Len(s) :
       \/ MatchesAt(s, p, <<"THAIID">>)
       \/ /\ p = 1 \/ ~IsWordChar(s[p - 1])
          /\ \/ /\ MatchesAtCI(s, p, <<"i", "d">>)
                /\ p + 2 <= Len(s) => ~IsLetter(s[p + 2])
             \/ /\ MatchesAtCI(s, p, <<"u", "i", "d">>)
                /\ p + 3 <= Len(s) => ~IsLetter(s[p + 3])

\* C17 as stated: extract_ign cuts the name at the token ID, UID or the
\* localized token, also when digits follow the token directly: the name of
\* "KEYWORD: Alice ID12345" is "Alice", and no name it returns holds the
\* player-id field.
C17_CutsAtIdToken ==
    (pure.fn = "extract" /\ pure.done) =>
       /\ pure.arg = AliceWithId => pure.out = <<"A">>
       /\ ~HasIdField(pure.out)

====
